---- MODULE Spec2Model ----
(***************************************************************************)
(* hapi-hooks: a poll-based job scheduler on a document store.             *)
(*                                                                         *)
(* The model follows the registration code (the timer, the enqueue method, *)
(* the retry method), lib/logHooks.js and lib/queryHooks.js (the count of  *)
(* outstanding hooks and the fetch of due hooks), lib/retry.js, and the    *)
(* per-hook task object (logHook, performActions, completeHook) that       *)
(* executes one hook.                                                      *)
(*                                                                         *)
(* One action of the model is one callback of the program: the program is  *)
(* single-threaded, so everything a callback does synchronously is one     *)
(* step, and every store operation or handler completes in a later step.   *)
(***************************************************************************)
EXTENDS Integers, Sequences, FiniteSets, TLC

\* ---------------------------------------------------------------- bounds
\* Number of documents the store can hold in a run of the model.
MaxJobs == 2
\* The clock runs from 0 to MaxTime.
MaxTime == 1
\* settings.batchSize is drawn from 0..MaxBatch.
MaxBatch == 1
\* Documents in the collection where the execution of one hook is examined.
ExecJobs == 1
\* retryHook executions in flight at once.
MaxRetryRuns == 1
\* The times the process is stopped and started again.
MaxRestarts == 1

\* ------------------------------------------------------- program constants
\* defaults.maxRetries
maxRetries == 3
\* defaults.concurrent
concurrent == 10

JobIds == 1..MaxJobs
Times == 0..MaxTime
Origins == {"poll", "retry"}
\* Who runs a hook's tasks: the poll, retryHook, the poll of a second
\* process, or a tick that has ended while tasks it started are still running
\* ("earlier").
Executors == Origins \cup {"peer", "earlier"}

\* --------------------------------------------------------- configuration
\* An action identifier is a string; it is kept as the sequence of its
\* tokens so that the test for a call expression can look at its characters.
\* An object action's method goes through the same tests as a bare string.
sendEmail == <<"sendEmail">>
logAudit == <<"logAudit">>
missing == <<"missing">>
notifyCall == <<"notify", "(", "1", ")">>

\* server.methods: the host's method table.
Methods == {sendEmail, logAudit, <<"notify">>}

\* A configured action: a bare identifier (a string), or an object
\* {method, data}; hasData says whether the object carries a data field.
StrAction(id) == [form |-> "string", method |-> id, hasData |-> FALSE]

ObjAction(id, d) == [form |-> "object", method |-> id, hasData |-> d]

\* settings.hooks: hook name -> ordered list of actions.
Hooks ==
  ("welcome" :> <<StrAction(sendEmail), StrAction(logAudit)>>) @@
  ("report" :> <<StrAction(missing), StrAction(notifyCall)>>) @@
  ("digest" :> <<ObjAction(sendEmail, TRUE), ObjAction(logAudit, FALSE)>>) @@
  ("ping" :> <<StrAction(sendEmail)>>) @@
  ("mail" :> <<ObjAction(sendEmail, TRUE)>>)

\* The fields a data object can have; a field it does not have is "unset".
DataKeys == {"to", "cc"}

\* No data: undefined, or an object with no field, which Object.assign
\* treats alike.
NoData == [k \in DataKeys |-> "unset"]

\* The object actions that carry a data field, as <<hook name, index>>.
ObjectKeys ==
  UNION {{<<n, i>> : i \in {x \in 1..Len(Hooks[n]) :
                              Hooks[n][x].form = "object" /\ Hooks[n][x].hasData}} :
         n \in DOMAIN Hooks}

\* action.data as the options give it: a cc default for every such action.
Configured == [k \in ObjectKeys |-> [to |-> "unset", cc |-> "audit"]]

\* Object.assign(target, source): every field source has is copied over the
\* target's, and the result is the target.
Merge(target, source) ==
  [k \in DataKeys |-> IF source[k] # "unset" THEN source[k] ELSE target[k]]

\* The data callers pass to hook().
DataChoices ==
  {NoData, [to |-> "ann", cc |-> "unset"], [to |-> "bob", cc |-> "boss"]}

\* The names callers pass to hook(): the configured ones and one that is not.
HookNames == DOMAIN Hooks \cup {"unregistered"}

\* The names passed where the scheduler is examined.
SchedNames == {"ping", "unregistered"}

\* The names passed where the data of the actions is examined.
DataNames == {"mail"}

\* ----------------------------------------------------------------- state
VARIABLES
  store,              \* the collection: JobIds -> document or NoDoc
  now,                \* the clock (new Date())
  settings,           \* the options the plugin was registered with
  continueProcessing, \* the flag onPreStop clears
  timer,              \* "armed": setTimeout(timer, interval) is pending
  tick,               \* where the running tick is: idle, counting, fetching, running
  current,            \* the count of processing hooks the tick's status query gave
  batch,              \* the hooks the running tick fetched
  runs,               \* the hook executions in flight: <<origin, id>> -> run
  cycles,             \* history: the execution cycles begun for each hook
  restarts,           \* history: the times the process has been started again
  peer,               \* a second process polling the same collection
  configured          \* action.data of the configured object actions, as it is now

vars == <<store, now, settings, continueProcessing, timer, tick, current, batch, runs,
          cycles, restarts, peer, configured>>

NoDoc == [status |-> "absent"]

NoRun == [phase |-> "none"]

Docs == {j \in JobIds : store[j] # NoDoc}

\* ------------------------------------------------------------ enqueue
\* A verification that lets every name through.
UnguardedRegistered(hookName) == TRUE

\* The verification in hook(): the name must be a key of settings.hooks.
Registered(hookName) == hookName \in DOMAIN Hooks

\* A new document's attempts.
InitialAttempts == 0

\* A new document's runAfter: hookOptions.runAfter, or the time of the call.
RunAfterChoices == {t \in Times : t >= now}

\* The document insertOne writes.
NewDoc(hookName, hookData, runAfter) ==
  [hookName |-> hookName, hookData |-> hookData, status |-> "waiting", results |-> <<>>,
   completedOn |-> "unset", runAfter |-> runAfter, attempts |-> InitialAttempts]

\* The store assigns the identifier: the first one not in use.
FreeId == CHOOSE j \in JobIds \ Docs : \A k \in JobIds \ Docs : j <= k

\* hook(hookName, hookData, hookOptions)
HookData(hookName, hookData, runAfter) ==
  /\ Docs # JobIds
  /\ IF ~Registered(hookName)
       THEN UNCHANGED store
       ELSE store' = [store EXCEPT ![FreeId] = NewDoc(hookName, hookData, runAfter)]
  /\ UNCHANGED <<now, settings, continueProcessing, timer, tick, current, batch, runs, cycles, restarts, configured, peer>>

\* hook() with no data.
Hook(hookName, runAfter) == HookData(hookName, NoData, runAfter)

\* ------------------------------------------------- executing one hook
\* One result entry pushed to updateHook.results: the action's identifier and
\* what came back ("output", or the error: "error" from the handler's
\* callback, "ETIMEDOUT" from async.timeout, "thrown" from the catch block).
Entry(id, result) == [action |-> id, result |-> result]

\* The closure of one execution as performActions begins: nothing iterated,
\* updateHook = { results: [] } and no status.
\* marked says whether the update to 'processing' went through.
FreshRun(attempts0) ==
  [phase |-> "log", launched |-> 0, pending |-> {}, results |-> <<>>,
   status |-> "none", aborted |-> FALSE, attempts0 |-> attempts0, callbacks |-> 0,
   marked |-> FALSE, payloads |-> <<>>]

\* action[action.length - 1] === ')' && action.indexOf('(') > -1
IsCallExpression(id) == id[Len(id)] = ")" /\ \E k \in 1..Len(id) : id[k] = "("

\* get(server.methods, action) finds a method.
Resolves(id) == id \in Methods

\* An error branch that forgets the status.
PushErrorNoStatus(run, id, result) ==
  [run EXCEPT !.results = Append(@, Entry(id, result))]

\* The error branches: push { action, error } and set status 'failed'.
PushError(run, id, result) ==
  [run EXCEPT !.results = Append(@, Entry(id, result)), !.status = "failed"]

\* The success branch: push { action, output }.
PushOutput(run, id) == [run EXCEPT !.results = Append(@, Entry(id, "output"))]

\* What a callback (error, output) does to updateHook.
PushCallback(run, id, result) ==
  IF result = "output" THEN PushOutput(run, id) ELSE PushError(run, id, result)

\* The iterator of async.each for the i-th action a.  timeout is
\* settings.timeout; throws holds the actions whose handler throws when it is
\* called; wrapThrows says whether async.timeout itself throws when it is
\* handed undefined instead of a function (it is called outside the try block,
\* and what it does with a non-function is the library's choice).
\* An exception outside the try block leaves the iterator and async.each:
\* the run is aborted, the actions after this one are never iterated.
ActionStep(a, i, run, timeout, throws, wrapThrows) ==
  LET id == a.method
      it == [run EXCEPT !.launched = i]
  IN
  IF a.form = "object" /\ ~a.hasData
    THEN [it EXCEPT !.aborted = TRUE]      \* Object.assign(undefined, ...) throws
  ELSE IF IsCallExpression(id)
    THEN [it EXCEPT !.pending = @ \cup {i}]   \* str2fn.execute, no timeout wrapper
  ELSE IF ~Resolves(id) /\ timeout /\ wrapThrows
    THEN [it EXCEPT !.aborted = TRUE]      \* async.timeout(undefined, ...) throws
  ELSE IF ~Resolves(id) \/ i \in throws
    THEN PushError(it, id, "thrown")       \* the catch block
  ELSE [it EXCEPT !.pending = @ \cup {i}]

RECURSIVE Iterate(_, _, _, _, _, _)
\* async.each over the hook's actions, in declaration order, from the i-th.
Iterate(actions, i, run, timeout, throws, wrapThrows) ==
  IF i > Len(actions) THEN run
  ELSE LET step == ActionStep(actions[i], i, run, timeout, throws, wrapThrows)
       IN IF step.aborted THEN step
          ELSE Iterate(actions, i + 1, step, timeout, throws, wrapThrows)

\* async.each calls its final callback once every iterator has called eachDone.
Settle(run, n) ==
  IF ~run.aborted /\ run.launched = n /\ run.pending = {}
    THEN [run EXCEPT !.phase = "completing"]
    ELSE [run EXCEPT !.phase = "perform"]

\* The actions of hook j, from the name in its document.
ActionsOf(j) == Hooks[store[j].hookName]

\* The handlers that can throw when called: the plain ones that resolve.
Throwers(actions) ==
  {i \in 1..Len(actions) :
     /\ ~IsCallExpression(actions[i].method)
     /\ Resolves(actions[i].method)}

\* The update logHook (or retry's log) makes: $set { status: 'processing' }.
MarkProcessing(doc) == [doc EXCEPT !.status = "processing"]

\* actionData as the iterator computes it for the action a configured at key
\* k: the hook's data, or, for an object action, what Object.assign(action.data,
\* actionData) returns, which is action.data itself with the hook's fields
\* written into it.
ActionData(a, k, hookData) ==
  IF a.form = "object" THEN Merge(configured[k], hookData) ELSE hookData

\* What the handler is called with: a copy of hook.hookData for a call
\* expression, actionData otherwise.
Payload(a, k, hookData) ==
  IF IsCallExpression(a.method) THEN hookData ELSE ActionData(a, k, hookData)

\* The actions whose handler has been called once the iteration gave run:
\* those whose callback is awaited and those whose handler threw.
Given(actions, run, throws) ==
  run.pending \cup
    {i \in throws : i <= run.launched /\ ~(actions[i].form = "object" /\ ~actions[i].hasData)}

\* The payload of each handler called for hook j.
Payloads(j, run, throws) ==
  [i \in Given(ActionsOf(j), run, throws) |->
     Payload(ActionsOf(j)[i], <<store[j].hookName, i>>, store[j].hookData)]

\* action.data of every object action once the iteration gave run: the
\* iterated actions of hook j have the hook's fields written into theirs.
Assigned(j, run) ==
  [k \in ObjectKeys |->
     IF k[1] = store[j].hookName /\ k[2] <= run.launched
       THEN Merge(configured[k], store[j].hookData)
       ELSE configured[k]]

\* The callback of logHook's update calls done() whether or not the update
\* failed, and performActions starts every action.  The options of a second
\* process are its own: what it assigns is not kept here.
PerformActions(o, j, marked) ==
  \E throws \in SUBSET Throwers(ActionsOf(j)), wrapThrows \in BOOLEAN :
    LET run == Iterate(ActionsOf(j), 1, [runs[<<o, j>>] EXCEPT !.marked = marked],
                       settings.timeout, throws, wrapThrows)
    IN /\ runs' = [runs EXCEPT ![<<o, j>>] =
                     Settle([run EXCEPT !.payloads = Payloads(j, run, throws)],
                            Len(ActionsOf(j)))]
       /\ configured' = IF o = "peer" THEN configured ELSE Assigned(j, run)

\* An update that is withheld when another execution has marked the hook.
LogHookIfUnclaimed(o, j) ==
  /\ runs[<<o, j>>].phase = "log"
  /\ IF store[j].status = "processing"
       THEN /\ UNCHANGED <<store, configured>>
            /\ runs' = [runs EXCEPT ![<<o, j>>] = [@ EXCEPT !.phase = "done"]]
       ELSE /\ store' = [store EXCEPT ![j] = MarkProcessing(@)]
            /\ PerformActions(o, j, TRUE)
  /\ UNCHANGED <<now, settings, continueProcessing, timer, tick, current, batch, restarts>>

\* logHook's update and its callback: the hook is marked as processing,
\* whatever its status is by now, and performActions starts every action.
LogHookTask(o, j) ==
  /\ runs[<<o, j>>].phase = "log"
  /\ store' = [store EXCEPT ![j] = MarkProcessing(@)]
  /\ PerformActions(o, j, TRUE)
  /\ UNCHANGED <<now, settings, continueProcessing, timer, tick, current, batch, restarts>>

LogHook(o, j) == LogHookTask(o, j) /\ UNCHANGED <<cycles, peer>>

\* The cycles history counts up to one past the ceiling.
CycleCap == maxRetries + 1

\* The same step where the cycles of each hook are counted.
CountedLogHook(o, j) ==
  /\ LogHookTask(o, j)
  /\ cycles' = [cycles EXCEPT ![j] = IF @ < CycleCap THEN @ + 1 ELSE @]
  /\ UNCHANGED peer

\* The update of logHook fails: the error is logged and done() is called.
LogHookFails(o, j) ==
  /\ runs[<<o, j>>].phase = "log"
  /\ PerformActions(o, j, FALSE)
  /\ UNCHANGED <<store, now, settings, continueProcessing, timer, tick, current, batch,
                 cycles, restarts, peer>>

\* A handler (or str2fn.execute) calls back with an error or an output.
ActionCallback(o, j, i, result) ==
  /\ runs[<<o, j>>].phase = "perform"
  /\ i \in runs[<<o, j>>].pending
  /\ runs' = [runs EXCEPT ![<<o, j>>] =
                Settle(PushCallback([@ EXCEPT !.pending = @ \ {i}],
                                    ActionsOf(j)[i].method, result),
                       Len(ActionsOf(j)))]
  /\ UNCHANGED <<store, now, settings, continueProcessing, timer, tick, current, batch, cycles, restarts, configured, peer>>

\* The actions async.timeout wraps: every one but a call expression, when
\* settings.timeout is set.
Timed(timeout, a) == timeout /\ ~IsCallExpression(a.method)

\* The deadline passes before the handler has called back.
ActionTimeout(o, j, i) ==
  /\ runs[<<o, j>>].phase = "perform"
  /\ i \in runs[<<o, j>>].pending
  /\ Timed(settings.timeout, ActionsOf(j)[i])
  /\ runs' = [runs EXCEPT ![<<o, j>>] =
                Settle(PushCallback([@ EXCEPT !.pending = @ \ {i}],
                                    ActionsOf(j)[i].method, "ETIMEDOUT"),
                       Len(ActionsOf(j)))]
  /\ UNCHANGED <<store, now, settings, continueProcessing, timer, tick, current, batch, cycles, restarts, configured, peer>>

\* The update completeHook makes: $set { results, status, completedOn }.
CompletedDoc(doc, run) ==
  [doc EXCEPT !.results = run.results,
              !.status = IF run.status = "failed" THEN "failed" ELSE "complete",
              !.completedOn = "set"]

\* What is left of a run once its update is done.
Finished(run) == [run EXCEPT !.phase = "done", !.results = <<>>, !.status = "none"]

\* The other hooks of the batch are all done.
LastOfBatch(j) == \A k \in batch \ {j} : runs[<<"poll", k>>].phase = "done"

\* if (continueProcessing) setTimeout(timer, settings.interval)
Rearm == IF continueProcessing THEN "armed" ELSE "none"

\* completeHook's update and what follows it.  For the last hook of a batch
\* that is automap's final callback: the tick is over and the timer is set.
\* retry.js passes no final callback, so allDone is never called.
CompleteHook(o, j) ==
  /\ runs[<<o, j>>].phase = "completing"
  /\ store' = [store EXCEPT ![j] = CompletedDoc(@, runs[<<o, j>>])]
  /\ IF o = "poll" /\ LastOfBatch(j)
       THEN /\ runs' = [r \in Executors \X JobIds |->
                          IF r[1] = "poll" THEN NoRun ELSE runs[r]]
            /\ batch' = {}
            /\ tick' = "idle"
            /\ timer' = Rearm
       ELSE /\ runs' = [runs EXCEPT ![<<o, j>>] = Finished(@)]
            /\ UNCHANGED <<batch, tick, timer>>
  /\ UNCHANGED <<now, settings, continueProcessing, current, cycles, restarts, configured, peer>>

\* An execution whose tasks have begun and have not ended.
InFlight(run) == run.phase \in {"log", "perform", "completing"}

\* completeHook's update fails: done(err) ends the tasks of the hook, and for
\* a hook the poll runs the error goes at once to the callback of queryHooks,
\* which logs it and sets the timer: the tick is over.  The document stays as
\* logHook left it.  The tasks of the other hooks of the batch go on, and
\* what they end with reaches no callback: they are the runs of "earlier".
CompleteHookFails(o, j) ==
  /\ runs[<<o, j>>].phase = "completing"
  /\ IF o = "poll"
       THEN /\ \A k \in batch \ {j} : ~InFlight(runs[<<"earlier", k>>])
            /\ runs' = [r \in Executors \X JobIds |->
                          IF r[1] = "poll" THEN NoRun
                          ELSE IF /\ r[1] = "earlier"
                                  /\ r[2] \in batch \ {j}
                                  /\ InFlight(runs[<<"poll", r[2]>>])
                            THEN runs[<<"poll", r[2]>>]
                            ELSE runs[r]]
            /\ batch' = {}
            /\ tick' = "idle"
            /\ timer' = Rearm
       ELSE /\ runs' = [runs EXCEPT ![<<o, j>>] = Finished(@)]
            /\ UNCHANGED <<batch, tick, timer>>
  /\ UNCHANGED <<store, now, settings, continueProcessing, current, cycles, restarts, configured, peer>>

\* ---------------------------------------------------------------- retry
\* retryHook(hookId, callback) calls lib/retry.js.  Its steps are the tasks
\* written there: findOne, then log (the hook is marked as processing,
\* whatever its status), then execute (the tasks of one hook, as the poll
\* runs them).  Nothing in it writes attempts, and no final callback is
\* handed to the tasks, so the callback of retryHook is never called.
\* This is the findOne; log and execute are LogHook("retry", j) and what
\* follows it.
RetryHook(j) ==
  /\ j \in Docs
  /\ runs[<<"retry", j>>].phase \in {"none", "done"}
  /\ Cardinality({k \in JobIds : runs[<<"retry", k>>].phase \notin {"none", "done"}})
       < MaxRetryRuns
  /\ runs' = [runs EXCEPT ![<<"retry", j>>] = FreshRun(store[j].attempts)]
  /\ UNCHANGED <<store, now, settings, continueProcessing, timer, tick, current, batch, cycles, restarts, configured, peer>>

\* retryHook with an identifier no document has: findOne gives null, and log
\* reads hook._id of it, which throws; the tasks end there.  Nothing is
\* written, no action is started and no callback is called.
RetryMissing(j) ==
  /\ j \notin Docs
  /\ runs[<<"retry", j>>].phase = "none"
  /\ runs' = [runs EXCEPT ![<<"retry", j>>] =
                [FreshRun(InitialAttempts) EXCEPT !.phase = "done", !.aborted = TRUE]]
  /\ UNCHANGED <<store, now, settings, continueProcessing, timer, tick, current, batch,
                 cycles, restarts, configured, peer>>

\* ------------------------------------------------------------- the tick
\* The timer fires: timer() returns at once after a stop, and otherwise asks
\* for the count of outstanding hooks.
TimerFires ==
  /\ timer = "armed"
  /\ timer' = "none"
  /\ tick' = IF continueProcessing THEN "counting" ELSE tick
  /\ UNCHANGED <<store, now, settings, continueProcessing, current, batch, runs, cycles, restarts, configured, peer>>

\* The count of hooks whose status is processing.
ProcessingCount == Cardinality({j \in Docs : store[j].status = "processing"})

\* A tick that never waits.
SkipsFetchNever(processing) == FALSE

\* What the tick does with the count: wait for the next tick while hooks are
\* still processing, otherwise query the due hooks.
SkipsFetch(processing) == processing # 0

LogHooks ==
  /\ tick = "counting"
  /\ current' = ProcessingCount
  /\ IF SkipsFetch(ProcessingCount)
       THEN tick' = "idle" /\ timer' = "armed"
       ELSE tick' = "fetching" /\ UNCHANGED timer
  /\ UNCHANGED <<store, now, settings, continueProcessing, batch, runs, cycles, restarts, configured, peer>>

\* The status query fails: logHooks calls back with the error alone, the
\* timer's callback logs it and then reads current.processing of undefined,
\* which throws.  The tick is over and no timer has been set.
LogHooksFails ==
  /\ tick = "counting"
  /\ tick' = "idle"
  /\ UNCHANGED <<store, now, settings, continueProcessing, timer, current, batch, runs,
                 cycles, restarts, configured, peer>>

\* A find without the runAfter filter.
DueIgnoringRunAfter(doc, t) == doc.status \in {"waiting", "failed"}

\* The find of queryHooks: status in [waiting, failed] and runAfter <= now.
Due(doc, t) == doc.status \in {"waiting", "failed"} /\ doc.runAfter <= t

DueJobs == {j \in Docs : Due(store[j], now)}

\* A limit that lets one document too many through.
LimitOffByOne(n, S) ==
  IF n = 0 THEN {S}
  ELSE {B \in SUBSET S : Cardinality(B) = IF Cardinality(S) < n + 1
                                             THEN Cardinality(S) ELSE n + 1}

\* .limit(n): at most n of the matching documents, all of them when n is 0.
Limit(n, S) ==
  IF n = 0 THEN {S}
  ELSE {B \in SUBSET S : Cardinality(B) = IF Cardinality(S) < n
                                             THEN Cardinality(S) ELSE n}

\* The callback of the find: nothing found ends the tick, otherwise every
\* fetched hook starts its tasks.
QueryHooks ==
  /\ tick = "fetching"
  /\ \E B \in Limit(settings.batchSize, DueJobs) :
       IF B = {}
         THEN /\ tick' = "idle"
              /\ timer' = Rearm
              /\ UNCHANGED <<batch, runs>>
         ELSE /\ tick' = "running"
              /\ batch' = B
              /\ runs' = [r \in Executors \X JobIds |->
                            IF r[1] = "poll" /\ r[2] \in B
                              THEN FreshRun(store[r[2]].attempts)
                              ELSE runs[r]]
              /\ UNCHANGED timer
  /\ UNCHANGED <<store, now, settings, continueProcessing, current, cycles, restarts, configured, peer>>

\* The find fails: allDone(dbErr), which the timer's callback logs before it
\* sets the timer.
QueryHooksFails ==
  /\ tick = "fetching"
  /\ tick' = "idle"
  /\ timer' = Rearm
  /\ UNCHANGED <<store, now, settings, continueProcessing, current, batch, runs,
                 cycles, restarts, configured, peer>>

\* onPreStop
OnPreStop ==
  /\ continueProcessing
  /\ continueProcessing' = FALSE
  /\ UNCHANGED <<store, now, settings, timer, tick, current, batch, runs, cycles, restarts, configured, peer>>

\* ------------------------------------------------------- a second process
\* A second process registered with the same options on the same collection
\* runs the same timer; peer holds its tick, and its executions are the runs
\* of "peer".
PeerTimerFires ==
  /\ peer.timer = "armed"
  /\ peer' = [peer EXCEPT !.timer = "none", !.tick = "counting"]
  /\ UNCHANGED <<store, now, settings, continueProcessing, timer, tick, current, batch,
                 runs, cycles, restarts, configured>>

PeerLogHooks ==
  /\ peer.tick = "counting"
  /\ peer' = IF SkipsFetch(ProcessingCount)
               THEN [peer EXCEPT !.current = ProcessingCount, !.tick = "idle",
                                 !.timer = "armed"]
               ELSE [peer EXCEPT !.current = ProcessingCount, !.tick = "fetching"]
  /\ UNCHANGED <<store, now, settings, continueProcessing, timer, tick, current, batch,
                 runs, cycles, restarts, configured>>

PeerQueryHooks ==
  /\ peer.tick = "fetching"
  /\ \E B \in Limit(settings.batchSize, DueJobs) :
       IF B = {}
         THEN /\ peer' = [peer EXCEPT !.tick = "idle", !.timer = "armed"]
              /\ UNCHANGED runs
         ELSE /\ peer' = [peer EXCEPT !.tick = "running", !.batch = B]
              /\ runs' = [r \in Executors \X JobIds |->
                            IF r[1] = "peer" /\ r[2] \in B
                              THEN FreshRun(store[r[2]].attempts)
                              ELSE runs[r]]
  /\ UNCHANGED <<store, now, settings, continueProcessing, timer, tick, current, batch,
                 cycles, restarts, configured>>

PeerCompleteHook(j) ==
  /\ runs[<<"peer", j>>].phase = "completing"
  /\ store' = [store EXCEPT ![j] = CompletedDoc(@, runs[<<"peer", j>>])]
  /\ IF \A k \in peer.batch \ {j} : runs[<<"peer", k>>].phase = "done"
       THEN /\ runs' = [r \in Executors \X JobIds |->
                          IF r[1] = "peer" THEN NoRun ELSE runs[r]]
            /\ peer' = [peer EXCEPT !.batch = {}, !.tick = "idle", !.timer = "armed"]
       ELSE /\ runs' = [runs EXCEPT ![<<"peer", j>>] = Finished(@)]
            /\ UNCHANGED peer
  /\ UNCHANGED <<now, settings, continueProcessing, timer, tick, current, batch,
                 cycles, restarts, configured>>

\* ------------------------------------------------------------ a restart
\* The process ends and is started again: what it held in memory (the tick
\* under way, the executions, the timer) is gone, the collection is as it
\* was, and register() sets the flag and makes the first call of timer().
Restart ==
  /\ restarts < MaxRestarts
  /\ restarts' = restarts + 1
  /\ continueProcessing' = TRUE
  /\ timer' = "none"
  /\ tick' = "counting"
  /\ current' = 0
  /\ batch' = {}
  /\ runs' = [r \in Executors \X JobIds |-> IF r[1] # "peer" THEN NoRun ELSE runs[r]]
  /\ configured' = Configured
  /\ UNCHANGED <<store, now, settings, cycles, peer>>

\* ------------------------------------------------------------- the clock
AdvanceClock ==
  /\ now < MaxTime
  /\ now' = now + 1
  /\ UNCHANGED <<store, settings, continueProcessing, timer, tick, current, batch, runs, cycles, restarts, configured, peer>>

\* ---------------------------------------------------------- initial state
\* The state once register() has run: an empty collection, the first call of
\* timer() made (its status query is under way), and the options as given.
InitState(options, peer0) ==
  /\ store = [j \in JobIds |-> NoDoc]
  /\ now = 0
  /\ settings \in options
  /\ continueProcessing = TRUE
  /\ timer = "none"
  /\ tick = "counting"
  /\ current = 0
  /\ batch = {}
  /\ runs = [r \in Executors \X JobIds |-> NoRun]
  /\ cycles = [j \in JobIds |-> 0]
  /\ restarts = 0
  /\ peer = peer0
  /\ configured = Configured

\* No second process.
NoPeer == [tick |-> "off", timer |-> "none", current |-> 0, batch |-> {}]

InitWith(options) == InitState(options, NoPeer)

\* The default options, without a timeout.
PingOptions ==
  [timeout : {FALSE}, batchSize : {0}, concurrent : {concurrent},
   maxRetries : {maxRetries}]

InitPing == InitWith(PingOptions)

\* ------------------------------------------------- the execution of a hook
\* One hook at a time in the collection, of any configured name, with every
\* outcome of its actions, run by the poll and by retryHook.
InitExec ==
  InitWith([timeout : BOOLEAN, batchSize : {0}, concurrent : {concurrent},
            maxRetries : {maxRetries}])

NextExec ==
  \/ \E n \in HookNames, ra \in RunAfterChoices :
       Cardinality(Docs) < ExecJobs /\ Hook(n, ra)
  \/ AdvanceClock
  \/ TimerFires
  \/ LogHooks
  \/ QueryHooks
  \/ OnPreStop
  \/ \E j \in JobIds : RetryHook(j)
  \/ \E o \in Origins, j \in JobIds : LogHook(o, j)
  \/ \E o \in Origins, j \in Docs :
       \E i \in 1..Len(ActionsOf(j)), r \in {"output", "error"} :
         ActionCallback(o, j, i, r)
  \/ \E o \in Origins, j \in Docs :
       \E i \in 1..Len(ActionsOf(j)) : ActionTimeout(o, j, i)
  \/ \E o \in Origins, j \in JobIds : CompleteHook(o, j)

SpecExec == InitExec /\ [][NextExec]_vars

\* The same without retryHook: hooks are run by the poll alone.
NextPoll ==
  \/ \E n \in HookNames, ra \in RunAfterChoices :
       Cardinality(Docs) < ExecJobs /\ Hook(n, ra)
  \/ AdvanceClock
  \/ TimerFires
  \/ LogHooks
  \/ QueryHooks
  \/ OnPreStop
  \/ \E j \in JobIds : LogHook("poll", j)
  \/ \E j \in Docs :
       \E i \in 1..Len(ActionsOf(j)), r \in {"output", "error"} :
         ActionCallback("poll", j, i, r)
  \/ \E j \in Docs :
       \E i \in 1..Len(ActionsOf(j)) : ActionTimeout("poll", j, i)
  \/ \E j \in JobIds : CompleteHook("poll", j)

SpecPoll == InitExec /\ [][NextPoll]_vars

\* ------------------------------------------------------------ the scheduler
\* Several hooks in the collection, all of a name with a single action and
\* no timeout, under every batch size, with the option concurrent at 1.
InitSched ==
  InitWith([timeout : {FALSE}, batchSize : 0..MaxBatch, concurrent : {1},
            maxRetries : {maxRetries}])

NextSched ==
  \/ \E n \in SchedNames, ra \in RunAfterChoices : Hook(n, ra)
  \/ AdvanceClock
  \/ TimerFires
  \/ LogHooks
  \/ QueryHooks
  \/ OnPreStop
  \/ \E j \in JobIds : RetryHook(j)
  \/ \E o \in Origins, j \in JobIds : LogHook(o, j)
  \/ \E o \in Origins, j \in Docs :
       \E i \in 1..Len(ActionsOf(j)), r \in {"output", "error"} :
         ActionCallback(o, j, i, r)
  \/ \E o \in Origins, j \in JobIds : CompleteHook(o, j)

SpecSched == InitSched /\ [][NextSched]_vars

\* ------------------------------------------------------------------ retry
\* One hook of a single action, run by the poll and by retryHook, with
\* retryHook also called on identifiers no document has, under the default
\* ceiling of retries and under a ceiling of 0.
InitRetry ==
  InitWith([timeout : {FALSE}, batchSize : {0}, concurrent : {concurrent},
            maxRetries : {0, maxRetries}])

NextRetry ==
  \/ \E n \in SchedNames, ra \in RunAfterChoices :
       Cardinality(Docs) < ExecJobs /\ Hook(n, ra)
  \/ AdvanceClock
  \/ TimerFires
  \/ LogHooks
  \/ QueryHooks
  \/ OnPreStop
  \/ \E j \in JobIds : RetryHook(j)
  \/ \E j \in JobIds : RetryMissing(j)
  \/ \E o \in Origins, j \in JobIds : LogHook(o, j)
  \/ \E o \in Origins, j \in Docs :
       \E i \in 1..Len(ActionsOf(j)), r \in {"output", "error"} :
         ActionCallback(o, j, i, r)
  \/ \E o \in Origins, j \in JobIds : CompleteHook(o, j)

SpecRetry == InitRetry /\ [][NextRetry]_vars

\* ---------------------------------------------------------------- ceiling
\* One hook of a single action, run by the poll alone under the default
\* ceiling of retries, with the cycles of the hook counted.
NextCeiling ==
  \/ \E n \in SchedNames, ra \in RunAfterChoices :
       Cardinality(Docs) < ExecJobs /\ Hook(n, ra)
  \/ AdvanceClock
  \/ TimerFires
  \/ LogHooks
  \/ QueryHooks
  \/ OnPreStop
  \/ \E j \in JobIds : CountedLogHook("poll", j)
  \/ \E j \in Docs :
       \E i \in 1..Len(ActionsOf(j)), r \in {"output", "error"} :
         ActionCallback("poll", j, i, r)
  \/ \E j \in JobIds : CompleteHook("poll", j)

SpecCeiling == InitPing /\ [][NextCeiling]_vars

\* ----------------------------------------------------------------- faults
\* One hook of a single action, run by the poll, where every query and
\* update of the collection the tick makes can fail.
NextFault ==
  \/ \E n \in SchedNames, ra \in RunAfterChoices :
       Cardinality(Docs) < ExecJobs /\ Hook(n, ra)
  \/ AdvanceClock
  \/ TimerFires
  \/ LogHooks
  \/ LogHooksFails
  \/ QueryHooks
  \/ QueryHooksFails
  \/ OnPreStop
  \/ \E j \in JobIds : LogHook("poll", j)
  \/ \E j \in JobIds : LogHookFails("poll", j)
  \/ \E j \in Docs :
       \E i \in 1..Len(ActionsOf(j)), r \in {"output", "error"} :
         ActionCallback("poll", j, i, r)
  \/ \E j \in JobIds : CompleteHook("poll", j)
  \/ \E j \in JobIds : CompleteHookFails("poll", j)

SpecFault == InitPing /\ [][NextFault]_vars

\* ---------------------------------------------------------------- overlap
\* Several hooks of a single action that succeeds, run by the poll, where the
\* updates of a hook's tasks can fail.
Ticks == {"poll", "earlier"}

NextOverlap ==
  \/ \E n \in SchedNames, ra \in RunAfterChoices : Hook(n, ra)
  \/ AdvanceClock
  \/ TimerFires
  \/ LogHooks
  \/ QueryHooks
  \/ \E o \in Ticks, j \in JobIds : LogHook(o, j)
  \/ \E o \in Ticks, j \in JobIds : LogHookFails(o, j)
  \/ \E o \in Ticks, j \in Docs :
       \E i \in 1..Len(ActionsOf(j)) : ActionCallback(o, j, i, "output")
  \/ \E o \in Ticks, j \in JobIds : CompleteHook(o, j)
  \/ \E o \in Ticks, j \in JobIds : CompleteHookFails(o, j)

SpecOverlap == InitPing /\ [][NextOverlap]_vars

\* ------------------------------------------------------------------- data
\* Hooks with data whose one action is configured with default fields, run
\* by the poll one after the other.
NextData ==
  \/ \E n \in DataNames, d \in DataChoices, ra \in RunAfterChoices : HookData(n, d, ra)
  \/ AdvanceClock
  \/ TimerFires
  \/ LogHooks
  \/ QueryHooks
  \/ \E j \in JobIds : LogHook("poll", j)
  \/ \E j \in Docs :
       \E i \in 1..Len(ActionsOf(j)), r \in {"output", "error"} :
         ActionCallback("poll", j, i, r)
  \/ \E j \in JobIds : CompleteHook("poll", j)

SpecData == InitPing /\ [][NextData]_vars

\* --------------------------------------------------------------- restarts
\* One hook of a single action, run by the poll, in a process that can be
\* stopped and started again while the hook is being executed.  No stop
\* signal is given without a restart, the store answers every query and
\* update, the timer fires, and every handler calls back.
NextRestart ==
  \/ \E n \in SchedNames, ra \in RunAfterChoices :
       Cardinality(Docs) < ExecJobs /\ Hook(n, ra)
  \/ AdvanceClock
  \/ TimerFires
  \/ LogHooks
  \/ QueryHooks
  \/ Restart
  \/ \E j \in JobIds : LogHook("poll", j)
  \/ \E j \in Docs :
       \E i \in 1..Len(ActionsOf(j)), r \in {"output", "error"} :
         ActionCallback("poll", j, i, r)
  \/ \E j \in JobIds : CompleteHook("poll", j)

FairRestart ==
  /\ WF_vars(AdvanceClock)
  /\ WF_vars(TimerFires)
  /\ WF_vars(LogHooks)
  /\ WF_vars(QueryHooks)
  /\ WF_vars(\E j \in JobIds : LogHook("poll", j))
  /\ WF_vars(\E j \in Docs :
               \E i \in 1..Len(ActionsOf(j)), r \in {"output", "error"} :
                 ActionCallback("poll", j, i, r))
  /\ WF_vars(\E j \in JobIds : CompleteHook("poll", j))

SpecRestart == InitPing /\ [][NextRestart]_vars /\ FairRestart

\* ------------------------------------------------------------ two pollers
\* One hook of a single action in a collection two processes poll, with the
\* cycles of the hook counted.
Pollers == {"poll", "peer"}

InitPeers == InitState(PingOptions, [NoPeer EXCEPT !.tick = "counting"])

NextPeers ==
  \/ \E n \in SchedNames, ra \in RunAfterChoices :
       Cardinality(Docs) < ExecJobs /\ Hook(n, ra)
  \/ AdvanceClock
  \/ TimerFires
  \/ LogHooks
  \/ QueryHooks
  \/ PeerTimerFires
  \/ PeerLogHooks
  \/ PeerQueryHooks
  \/ \E o \in Pollers, j \in JobIds : CountedLogHook(o, j)
  \/ \E o \in Pollers, j \in Docs :
       \E i \in 1..Len(ActionsOf(j)), r \in {"output", "error"} :
         ActionCallback(o, j, i, r)
  \/ \E j \in JobIds : CompleteHook("poll", j)
  \/ \E j \in JobIds : PeerCompleteHook(j)

SpecPeers == InitPeers /\ [][NextPeers]_vars

\* ------------------------------------------------------------ properties
Terminal(doc) == doc.status \in {"complete", "failed"}

\* Some entry of the results records a failure.
HasFailure(results) == \E k \in 1..Len(results) : results[k].result # "output"

\* C1: the terminal status a cycle persists is failed if and only if one of
\* the hook's actions failed (an error from the callback, a throw, an
\* identifier that does not resolve, a timeout); it is complete when every
\* action succeeded.
C1_FailedIffAnActionFailed ==
  \A j \in Docs :
    Terminal(store[j]) =>
      (store[j].status = "failed" <=> HasFailure(store[j].results))

\* A hook persisted as failed with one action timed out and the other done.
C1_Witness ==
  \E j \in Docs :
    /\ store[j].status = "failed"
    /\ Len(store[j].results) = 2
    /\ \E k, l \in 1..2 : /\ store[j].results[k].result = "ETIMEDOUT"
                          /\ store[j].results[l].result = "output"

\* The identifiers of a hook's configured actions, in declaration order.
Declared(j) == [k \in 1..Len(ActionsOf(j)) |-> ActionsOf(j)[k].method]

\* C2: a hook with a terminal status has exactly one result entry for each of
\* its configured actions, and an action that fails never keeps the other
\* actions of the hook from being run and recorded: every execution that has
\* begun to perform the actions has started each of them.
C2_EveryActionRunAndRecorded ==
  /\ \A j \in Docs :
       Terminal(store[j]) =>
         /\ Len(store[j].results) = Len(ActionsOf(j))
         /\ \A k \in 1..Len(ActionsOf(j)) :
              Cardinality({l \in 1..Len(store[j].results) :
                             store[j].results[l].action = Declared(j)[k]}) = 1
  /\ \A o \in Origins, j \in Docs :
       runs[<<o, j>>].phase \in {"perform", "completing"} =>
         runs[<<o, j>>].launched = Len(ActionsOf(j))

\* C3: the entries of a terminal hook's results are in the order in which its
\* actions are declared.
C3_ResultsInDeclaredOrder ==
  \A j \in Docs :
    Terminal(store[j]) =>
      \A k \in 1..Len(store[j].results) :
        k <= Len(ActionsOf(j)) => store[j].results[k].action = Declared(j)[k]

\* C4: hook() with a name that is not configured leaves the collection as it
\* is; with a configured name it adds exactly one document, whose status is
\* waiting; and every document that appears in the collection appears so.
C4_EnqueueEffect ==
  [][/\ \A n \in HookNames, ra \in Times :
          Hook(n, ra) =>
            IF n \in DOMAIN Hooks
              THEN /\ Cardinality(Docs') = Cardinality(Docs) + 1
                   /\ \A j \in Docs : store'[j] = store[j]
              ELSE store' = store
     /\ \A j \in JobIds :
          (store[j] = NoDoc /\ store'[j] # NoDoc) =>
             /\ store'[j].status = "waiting"
             /\ store'[j].hookName \in DOMAIN Hooks
             /\ Cardinality(Docs') = Cardinality(Docs) + 1]_vars

\* Two documents have been enqueued and none has been touched since.
C4_Witness ==
  /\ Cardinality(Docs) = 2
  /\ \A j \in Docs : store[j].status = "waiting" /\ store[j].hookName = "ping"

\* A step of the tick that is in the given place.
TickLeaves(place) == tick = place /\ tick' # place

\* C5: a tick whose status query finds hooks still processing fetches
\* nothing and claims nothing; it only sets the timer for the next tick.
C5_Backpressure ==
  [][(TickLeaves("counting") /\ ProcessingCount # 0) =>
       /\ tick' = "idle"
       /\ timer' = "armed"
       /\ current' # 0
       /\ UNCHANGED <<store, batch, runs>>]_vars

\* A tick has found a hook processing and has gone back to sleep.
C5_Witness ==
  /\ current # 0
  /\ tick = "idle"
  /\ timer = "armed"
  /\ batch = {}

\* C6: every hook a tick fetches is waiting or failed and has a runAfter
\* that is not in the future, and no hook whose runAfter is in the future is
\* being run by a tick.
C6_ClaimedAreDue ==
  /\ [][TickLeaves("fetching") =>
          \A j \in batch' : /\ store[j].status \in {"waiting", "failed"}
                            /\ store[j].runAfter <= now]_vars
  /\ [](\A j \in Docs : runs[<<"poll", j>>].phase # "none" => store[j].runAfter <= now)

\* A tick is running a due hook while a hook due later stays waiting.
C6_Witness ==
  /\ tick = "running"
  /\ \E j \in batch : store[j].status = "processing"
  /\ \E k \in Docs \ batch : store[k].runAfter > now /\ store[k].status = "waiting"

\* The number of hooks a tick claims of k due ones under batch size b.
ExpectedClaims(b, k) == IF b = 0 \/ k < b THEN k ELSE b

\* C7: a tick that fetches claims min(batchSize, k) of the k due hooks, all
\* of them when batchSize is 0; the tick runs only the hooks it claimed, and
\* the status of another hook changes only by a retryHook on it.
C7_BatchSize ==
  /\ [][TickLeaves("fetching") =>
          /\ batch' \subseteq DueJobs
          /\ Cardinality(batch') = ExpectedClaims(settings.batchSize, Cardinality(DueJobs))]_vars
  /\ [][\A j \in Docs \ batch :
          store'[j].status # store[j].status =>
            runs[<<"retry", j>>].phase \in {"log", "completing"}]_vars
  /\ [](\A j \in JobIds : runs[<<"poll", j>>].phase # "none" => j \in batch)

\* With batchSize 1 and two due hooks, one is claimed and one stays waiting.
C7_Witness ==
  /\ settings.batchSize = 1
  /\ tick = "running"
  /\ Cardinality(batch) = 1
  /\ \E j \in batch : store[j].status = "processing"
  /\ \E k \in Docs \ batch : Due(store[k], now) /\ store[k].status = "waiting"

\* The changes of status the lifecycle allows.
LegalChange(old, new) ==
  \/ new.status = old.status
  \/ old.status = "waiting" /\ new.status = "processing"
  \/ old.status = "processing" /\ new.status \in {"complete", "failed"}
  \/ old.status = "failed" /\ new.status = "processing" /\ old.attempts < maxRetries

\* C8: every change of a hook's status is waiting to processing, processing
\* to complete or failed, or failed to processing with attempts below
\* maxRetries.
C8_LegalStatusChanges ==
  [][\A j \in Docs : LegalChange(store[j], store'[j])]_vars

\* C9: a document has its completion timestamp if and only if its status is
\* complete or failed.
C9_CompletedOnIffTerminal ==
  \A j \in Docs : store[j].completedOn = "set" <=> Terminal(store[j])

\* C10: a retryHook execution that has marked the hook as processing has
\* raised attempts by one, and once it has persisted the terminal status it
\* has called the callback exactly once.
C10_RetryCountsAndCallsBack ==
  \A j \in Docs :
    /\ runs[<<"retry", j>>].phase \in {"perform", "completing", "done"} =>
         store[j].attempts = runs[<<"retry", j>>].attempts0 + 1
    /\ runs[<<"retry", j>>].phase = "done" => runs[<<"retry", j>>].callbacks = 1

\* C11: a retryHook on an identifier no document has calls the callback
\* (with the NotFound error) and starts no action.
C11_RetryOnAbsentIdCallsBack ==
  \A j \in JobIds \ Docs :
    runs[<<"retry", j>>].phase # "none" =>
      /\ runs[<<"retry", j>>].callbacks = 1
      /\ runs[<<"retry", j>>].launched = 0

\* C12: retryHook begins no execution for a hook whose attempts have reached
\* settings.maxRetries (it fails with RetryExhausted instead), so that no
\* action is started and the document stays as it was.
C12_RetryExhausted ==
  [][\A j \in Docs :
       store[j].attempts >= settings.maxRetries =>
         ~(runs[<<"retry", j>>].phase # "log" /\ runs'[<<"retry", j>>].phase = "log")]_vars

\* C18: the attempts of a hook never exceed settings.maxRetries, and no hook
\* is executed for more cycles than settings.maxRetries.
C18_RetryCeiling ==
  \A j \in Docs :
    /\ store[j].attempts <= settings.maxRetries
    /\ cycles[j] <= settings.maxRetries

\* C13: when settings.timeout is set, every action that has been started and
\* has not called back has a deadline that can pass for it, whatever the form
\* of its identifier, so that it is recorded as failed with the timeout error
\* and the hook goes on to its terminal status.
C13_DeadlineForEveryAction ==
  \A o \in Origins, j \in Docs :
    (settings.timeout /\ runs[<<o, j>>].phase = "perform") =>
      \A i \in runs[<<o, j>>].pending : ENABLED ActionTimeout(o, j, i)

\* C14: once the stop signal has been received no step sets the timer for
\* another tick, a timer that fires starts no query and claims nothing, and
\* no execution of a claimed hook is given up before its update; the stop
\* itself returns at once, leaving the tick and the executions as they are.
C14_CooperativeStop ==
  [][/\ ~continueProcessing =>
          /\ timer' = "armed" => timer = "armed"
          /\ (timer = "armed" /\ timer' = "none") =>
                UNCHANGED <<store, tick, current, batch, runs>>
          /\ \A j \in batch :
                runs'[<<"poll", j>>].phase = "none" =>
                  runs[<<"poll", j>>].phase \in {"none", "done", "completing"}
     /\ (continueProcessing /\ ~continueProcessing') =>
          UNCHANGED <<store, timer, tick, batch, runs>>]_vars

\* The hooks of the batch whose actions have been started and have not all
\* called back.
Executing == {j \in batch : runs[<<"poll", j>>].phase = "perform"}

\* C19: the hooks of one batch whose actions are being executed at the same
\* time are never more than settings.concurrent, whatever the batch size.
C19_MaxConcurrency == Cardinality(Executing) <= settings.concurrent

\* C16: a failure of the collection in a step of a tick does not end the
\* poll: whenever no stop signal has been received and no tick is under way,
\* the timer is set for the next tick.
C16_PollSurvivesStoreFailure ==
  (continueProcessing /\ tick = "idle") => timer = "armed"

\* C17: an execution whose update to 'processing' failed starts no action and
\* writes nothing: every execution that has started an action has its
\* update persisted.
C17_FailedMarkAbortsCycle ==
  \A o \in Origins, j \in Docs :
    (runs[<<o, j>>].phase # "none" /\ runs[<<o, j>>].launched > 0) =>
      runs[<<o, j>>].marked

\* C15: every hook in the collection eventually has a terminal status, also
\* when the process was started again after the hook was marked as processing
\* and before its completion was written.
C15_EventuallyTerminal ==
  \A j \in JobIds : (store[j] # NoDoc) ~> Terminal(store[j])

\* C20: with two pollers on one collection nothing keeps a hook from being
\* executed twice: each poller that has fetched a hook marks it and starts
\* its actions, whether or not the other has marked it already, and each
\* completion writes its own results and status over what the document held.
C20_BothPollersExecute ==
  /\ [](\A o \in Pollers, j \in JobIds :
          runs[<<o, j>>].phase \notin {"none", "log"} => runs[<<o, j>>].launched >= 1)
  /\ [][\A o \in Pollers, j \in Docs :
          (runs[<<o, j>>].phase = "completing" /\ runs'[<<o, j>>].phase # "completing") =>
             /\ store'[j].results = runs[<<o, j>>].results
             /\ Terminal(store'[j])]_vars

\* The hook was enqueued once and has been executed twice: one poller has
\* written its completion and the other, which fetched the hook while it was
\* waiting as well, is about to write different results over it.
C20_Witness ==
  \E o \in Pollers, j \in Docs :
    /\ cycles[j] = 2
    /\ Terminal(store[j])
    /\ runs[<<o, j>>].phase = "completing"
    /\ runs[<<o, j>>].results # store[j].results

\* C21: the ticks of one process never overlap: a timer is pending only
\* between two ticks, a tick ends only when none is pending, and while no
\* tick is running its batch no task that a tick started is still running,
\* so that no hook is run by two ticks at once.
C21_TicksNeverOverlap ==
  /\ timer = "armed" => tick = "idle"
  /\ tick # "running" => \A o \in Ticks, j \in JobIds : ~InFlight(runs[<<o, j>>])
  /\ \A j \in JobIds : ~(InFlight(runs[<<"poll", j>>]) /\ InFlight(runs[<<"earlier", j>>]))

\* The payloads the handlers of the running hooks were called with: the
\* fields of each are the hook's own over the defaults as configured.
PayloadsOwn ==
  \A j \in Docs :
    InFlight(runs[<<"poll", j>>]) =>
      \A i \in DOMAIN runs[<<"poll", j>>].payloads :
        runs[<<"poll", j>>].payloads[i] =
          Merge(Configured[<<store[j].hookName, i>>], store[j].hookData)

\* C22: building the payload of an action from its configured default fields
\* and a hook's data leaves the configured defaults as they were, and the
\* payload a handler is called with for a hook holds the hook's own data over
\* the defaults as configured, and no field of another hook's data.
C22_DefaultsUnchanged == configured = Configured /\ PayloadsOwn
====
